---------------------------- MODULE Spec2Model ----------------------------
(***************************************************************************)
(* State-machine model of camera/AicClient.cpp: the AicClient base class   *)
(* (socket life cycle, sendMessage, the length-prefixed receiveMessage,    *)
(* doQuery) together with the environment it talks to: the kernel's        *)
(* descriptor table, the byte stream of the camera service, malloc/free    *)
(* and errno.                                                              *)
(*                                                                         *)
(* Bytes are one-character strings.  C integers keep their width: an       *)
(* unsigned 32-bit quantity is held as its two's complement bit pattern    *)
(* (an integer in -2^31 .. 2^31-1), and a size_t / long as a record        *)
(* [hi, lo] of two such patterns (hi is 0 on a 32-bit build).              *)
(***************************************************************************)
EXTENDS Integers, Sequences, FiniteSets, TLC

(***************************************************************************)
(* Bounds of the model.                                                    *)
(***************************************************************************)
\* Longest payload the service sends: a reply that announces more stops
\* after that many payload bytes.
MaxPayload == 2
\* The service queues more bytes only while at most this many are unread.
MaxBacklog == 0
\* Longest message handed to sendMessage directly.
MaxMsg == 2
\* Largest number of bytes of an interrupted reply that reach the socket
\* between two calls.
MaxLate == 1

(***************************************************************************)
(* Status codes (status_t / errno values used by the code).                *)
(***************************************************************************)
NO_ERROR == 0
EIO == 5
EAGAIN == 11
ENOMEM == 12
EFAULT == 14
EINVAL == 22
EMFILE == 24
EPIPE == 32
ERANGE == 34
ENOTCONN == 107
ECONNREFUSED == 111

Min(a, b) == IF a < b THEN a ELSE b
Max(a, b) == IF a > b THEN a ELSE b

(***************************************************************************)
(* Characters and the service's framing ("%08x" of the payload size).      *)
(***************************************************************************)
LowerHex == <<"0","1","2","3","4","5","6","7","8","9","a","b","c","d","e","f">>
UpperHex == <<"0","1","2","3","4","5","6","7","8","9","A","B","C","D","E","F">>

IsHexDigit(c) == \E i \in 1..16 : c = LowerHex[i] \/ c = UpperHex[i]
HexVal(c) == (CHOOSE i \in 1..16 : c = LowerHex[i] \/ c = UpperHex[i]) - 1
IsSpace(c) == c \in {" ", "\t", "\n"}

Pow16[k \in 0..7] == IF k = 0 THEN 1 ELSE 16 * Pow16[k - 1]

\* The 8-character hexadecimal length the service writes before a payload
\* of n bytes (n < 2^31 here; larger lengths are written out literally).
Hex8(n) == [i \in 1..8 |-> LowerHex[((n \div Pow16[8 - i]) % 16) + 1]]

(***************************************************************************)
(* Machine words.                                                          *)
(***************************************************************************)
\* A value v with -2^31 <= v < 2^31 as a long / size_t of the build.
Word(v, bits) == [hi |-> IF v < 0 /\ bits = 64 THEN -1 ELSE 0, lo |-> v]
\* A 32-bit bit pattern p zero-extended (an unsigned quantity below 2^32).
UWord(p) == [hi |-> 0, lo |-> p]

\* acc * 16 + d on 32 bits, acc < 2^28: the result as a bit pattern
\* (negative when the unsigned value is 2^31 or more).
ShiftIn(acc, d) ==
    IF acc >= 134217728 THEN (acc - 268435456) * 16 + d ELSE acc * 16 + d

(***************************************************************************)
(* strtol(payload_size_str, NULL, 16) on the NUL-terminated prefix, as     *)
(* bionic computes it: leading white space, an optional sign, an optional  *)
(* "0x", then the longest run of hexadecimal digits (none at all gives 0   *)
(* and leaves errno alone); a value above LONG_MAX gives LONG_MAX and      *)
(* ERANGE.  The result is the long converted to size_t.                    *)
(***************************************************************************)
RECURSIVE SkipSpace(_, _)
SkipSpace(s, i) ==
    IF i <= Len(s) /\ IsSpace(s[i]) THEN SkipSpace(s, i + 1) ELSE i

RECURSIVE DigitsEnd(_, _)
DigitsEnd(s, i) ==
    IF i <= Len(s) /\ IsHexDigit(s[i]) THEN DigitsEnd(s, i + 1) ELSE i

RECURSIVE Magnitude(_, _, _, _)
Magnitude(s, i, j, acc) ==
    IF i >= j THEN acc ELSE Magnitude(s, i + 1, j, ShiftIn(acc, HexVal(s[i])))

strtol(s, bits) ==
    LET i0  == SkipSpace(s, 1)
        neg == i0 <= Len(s) /\ s[i0] = "-"
        i1  == IF i0 <= Len(s) /\ s[i0] \in {"-", "+"} THEN i0 + 1 ELSE i0
        i2  == IF /\ i1 + 1 <= Len(s)
                  /\ s[i1] = "0"
                  /\ s[i1 + 1] \in {"x", "X"}
                  /\ i1 + 2 <= Len(s)
                  /\ IsHexDigit(s[i1 + 2])
               THEN i1 + 2 ELSE i1
        j   == DigitsEnd(s, i2)
        mag == Magnitude(s, i2, j, 0)
    IN  IF bits = 32 /\ mag < 0
          THEN [val |-> Word(2147483647, bits), err |-> ERANGE]
        ELSE IF neg
          THEN [val |-> Word(0 - mag, bits), err |-> 0]
          ELSE [val |-> UWord(mag), err |-> 0]

(***************************************************************************)
(* State.                                                                  *)
(***************************************************************************)
VARIABLES
    longBits,   \* width of long and size_t of the build: 32 or 64
    alive,      \* the AicClient object exists (constructed, not destroyed)
    mSocketFD,  \* AicClient::mSocketFD
    fdOpen,     \* descriptors the client opened and nobody closed yet
    fdConn,     \* those of them on which connect() succeeded
    errno,      \* the thread's errno
    rx,         \* bytes the service wrote that the client has not read yet
    pc,         \* where the calling thread is
    query,      \* the QemuQuery doQuery works on (status and command)
    out,        \* the cell behind receiveMessage's data / data_size
    blk,        \* the payload buffer receiveMessage allocated, if any
    payload_size, payload_left, payload_read, ptr, \* receiveMessage's locals
    res,        \* doQuery's local res
    h,          \* history of the call in progress, or of the last event
    cam         \* the CameraAicClient operation in progress, or the last one

recvLocals == <<payload_size, payload_left, payload_read, ptr>>
transport == <<longBits, alive, mSocketFD, fdOpen, fdConn, errno, rx, pc,
               query, out, blk, payload_size, payload_left, payload_read,
               ptr, res, h>>
vars == <<transport, cam>>

\* Highest descriptor number the kernel hands out in the model.
MaxFd == 1
FdSet == 0..MaxFd

\* What a call can observe or change outside its own locals.
Snapshot ==
    [mSocketFD |-> mSocketFD, fdOpen |-> fdOpen, fdConn |-> fdConn]

\* History record of a call that has just started.
H0(op) ==
    [op |-> op, done |-> FALSE, res |-> NO_ERROR, branch |-> "",
     pre |-> Snapshot, sockets |-> 0, closes |-> 0, badClose |-> FALSE,
     \* errno and the unread bytes as a call that must not touch them found
     \* them
     errno0 |-> 0, rx0 |-> <<>>,
     \* sendMessage: invocations, send() calls, the request and its result
     sends |-> 0, writes |-> 0, data_size |-> 0, wr_res |-> 0,
     smRes |-> NO_ERROR,
     \* the bytes handed to send() and those of them it took
     handed |-> <<>>, wire |-> <<>>,
     \* receiveMessage: invocations, result, bytes it took off the stream
     recvs |-> 0, rmDone |-> FALSE, rmRes |-> NO_ERROR, rmBranch |-> "",
     prefix_rd |-> 0, taken |-> <<>>, envFail |-> FALSE,
     \* the bytes waiting in the stream when receiveMessage was entered, and
     \* whether a read met the end of the stream
     leftover |-> 0, eof |-> FALSE,
     mallocs |-> 0, mallocFail |-> FALSE, reads |-> 0,
     declared |-> UWord(0),
     \* doQuery: the query's build status, completeQuery invocations and
     \* the status handed to it
     build |-> NO_ERROR, completes |-> 0, completeArg |-> NO_ERROR,
     \* the camera operation that made the query, its doQuery calls, and
     \* the functions doQuery has invoked, in order
     caller |-> "", doQueries |-> 0, events |-> <<>>]

NULL == "NULL"
\* The out-parameters of a receiveMessage that has reported nothing.
NoReply == [data |-> NULL, data_size |-> UWord(0)]
NoBlock == [state |-> "none", size |-> UWord(0), bytes |-> <<>>, frees |-> 0]
NoQuery == [mQueryDeliveryStatus |-> NO_ERROR, mQuery |-> <<>>]

\* History while no call is in progress.
Idle == [H0("") EXCEPT !.done = TRUE]

\* No CameraAicClient operation has been called.
CamIdle == [op |-> "", pc |-> "idle"]

Init ==
    /\ longBits \in {32, 64}
    /\ alive = TRUE
    /\ mSocketFD = -1
    /\ fdOpen = {}
    /\ fdConn = {}
    /\ errno = 0
    /\ rx = <<>>
    /\ pc = "idle"
    /\ query = NoQuery
    /\ out = NoReply
    /\ blk = NoBlock
    /\ payload_size = UWord(0)
    /\ payload_left = 0
    /\ payload_read = 0
    /\ ptr = 0
    /\ res = NO_ERROR
    /\ h = Idle
    /\ cam = CamIdle

(***************************************************************************)
(* AicClient::AicClient and AicClient::~AicClient                          *)
(***************************************************************************)
Construct ==
    /\ ~alive
    /\ pc = "idle"
    /\ alive' = TRUE
    /\ mSocketFD' = -1
    /\ pc' = "done"
    /\ h' = [H0("AicClient") EXCEPT !.done = TRUE]
    /\ UNCHANGED <<cam, longBits, fdOpen, fdConn, errno, rx, query, out, blk>>
    /\ UNCHANGED <<recvLocals, res>>

\* close(fd): the descriptor is released; closing one that is not open is
\* recorded in the history.
CloseFd(fd) ==
    /\ fdOpen' = fdOpen \ {fd}
    /\ fdConn' = fdConn \ {fd}
    /\ rx' = <<>>

\* A destructor that takes descriptor 0 for "no socket".
HeldAtExitAboveZero(fd) == fd > 0

\* "if (mSocketFD >= 0)" of the destructor
HeldAtExit(fd) == fd >= 0

Destroy ==
    /\ alive /\ pc = "idle"
    /\ alive' = FALSE
    /\ IF HeldAtExit(mSocketFD)
         THEN /\ CloseFd(mSocketFD)
              /\ h' = [H0("~AicClient") EXCEPT !.done = TRUE, !.closes = 1,
                          !.badClose = (mSocketFD \notin fdOpen)]
         ELSE /\ UNCHANGED <<fdOpen, fdConn, rx>>
              /\ h' = [H0("~AicClient") EXCEPT !.done = TRUE]
    /\ pc' = "done"
    /\ UNCHANGED <<cam, longBits, mSocketFD, errno, query, out, blk>>
    /\ UNCHANGED <<recvLocals, res>>

(***************************************************************************)
(* AicClient::connectClient                                                *)
(***************************************************************************)
\* A connected-check that takes descriptor 0 for "no socket".
AlreadyConnectedAboveZero(fd) == fd > 0

\* "Make sure that client is not connected already."
AlreadyConnected(fd) == fd >= 0

\* socket(): the lowest free descriptor, or -1 (always possible: EMFILE).
SocketResults ==
    {-1} \cup (IF FdSet \ fdOpen = {} THEN {}
               ELSE {CHOOSE f \in FdSet \ fdOpen :
                        \A g \in FdSet \ fdOpen : f <= g})

\* "return errno ? errno : <dflt>"
ErrnoOr(e, dflt) == IF e # 0 THEN e ELSE dflt

ConnectClient ==
    /\ alive /\ pc = "idle"
    /\ IF AlreadyConnected(mSocketFD)
         THEN /\ h' = [H0("connectClient") EXCEPT !.done = TRUE,
                          !.res = EINVAL, !.branch = "already"]
              /\ UNCHANGED <<mSocketFD, fdOpen, fdConn, errno, rx>>
         ELSE \E s \in SocketResults :
                /\ mSocketFD' = s
                /\ IF s < 0
                     THEN /\ errno' = EMFILE
                          /\ h' = [H0("connectClient") EXCEPT !.done = TRUE,
                                      !.sockets = 1, !.branch = "socket",
                                      !.res = ErrnoOr(EMFILE, EINVAL)]
                          /\ UNCHANGED <<fdOpen, fdConn, rx>>
                     ELSE /\ fdOpen' = fdOpen \cup {s}
                          /\ \/ /\ errno' = ECONNREFUSED
                                /\ h' = [H0("connectClient") EXCEPT
                                            !.done = TRUE, !.sockets = 1,
                                            !.branch = "connect",
                                            !.res = ErrnoOr(ECONNREFUSED, EINVAL)]
                                /\ UNCHANGED <<fdConn, rx>>
                             \/ /\ fdConn' = fdConn \cup {s}
                                /\ rx' = <<>>
                                /\ h' = [H0("connectClient") EXCEPT
                                            !.done = TRUE, !.sockets = 1,
                                            !.branch = "ok", !.res = NO_ERROR]
                                /\ UNCHANGED errno
    /\ pc' = "done"
    /\ UNCHANGED <<cam, longBits, alive, query, out, blk>>
    /\ UNCHANGED <<recvLocals, res>>

(***************************************************************************)
(* AicClient::disconnectClient                                             *)
(***************************************************************************)
\* A disconnect that takes descriptor 0 for "no socket".
HoldsSocketAboveZero(fd) == fd > 0

\* "if (mSocketFD >= 0)" of disconnectClient
HoldsSocket(fd) == fd >= 0

DisconnectClient ==
    /\ alive /\ pc = "idle"
    /\ IF HoldsSocket(mSocketFD)
         THEN /\ CloseFd(mSocketFD)
              /\ mSocketFD' = -1
              /\ h' = [H0("disconnectClient") EXCEPT !.done = TRUE,
                          !.errno0 = errno, !.rx0 = rx, !.closes = 1,
                          !.badClose = (mSocketFD \notin fdOpen)]
         ELSE /\ UNCHANGED <<mSocketFD, fdOpen, fdConn, rx>>
              /\ h' = [H0("disconnectClient") EXCEPT !.done = TRUE,
                          !.errno0 = errno, !.rx0 = rx]
    /\ pc' = "done"
    /\ UNCHANGED <<cam, longBits, alive, errno, query, out, blk>>
    /\ UNCHANGED <<recvLocals, res>>

(***************************************************************************)
(* The camera service: it answers with a payload size written as 8         *)
(* hexadecimal characters followed by the payload.  Its bytes reach the    *)
(* client's socket in pieces, and it may stop anywhere in a reply.  A      *)
(* read() sees the bytes left unread plus those that arrived meanwhile.    *)
(***************************************************************************)
PayloadBytes == {"0", "z"}

RECURSIVE SeqsUpTo(_, _)
SeqsUpTo(S, n) ==
    IF n = 0 THEN {<<>>}
    ELSE LET T == SeqsUpTo(S, n - 1)
         IN  T \cup {Append(t, b) : t \in {u \in T : Len(u) = n - 1}, b \in S}

Payloads == SeqsUpTo(PayloadBytes, MaxPayload)

\* Length prefixes that are not the 8 digits of a small size: no digit at
\* all, digits followed by other characters, a size of 2^31, a minus sign.
OddPrefixes ==
    { <<"z","z","z","z","z","z","z","z">>,
      <<"1","z","z","z","z","z","z","z">>,
      <<"8","0","0","0","0","0","0","0">>,
      <<"-","0","0","0","0","0","0","1">> }

Frames == {Hex8(Len(p)) \o p : p \in Payloads} \cup OddPrefixes

\* What may have reached the socket since the last read: nothing, the
\* beginning of a reply, or more bytes of a payload.
Arrivals ==
    UNION {{SubSeq(f, 1, k) : k \in 0..Len(f)} : f \in Frames} \cup Payloads

(***************************************************************************)
(* Conversions between int and size_t                                      *)
(***************************************************************************)
\* static_cast<size_t>(i), and the implicit conversion of an int argument.
FromInt(i) == Word(i, longBits)
\* "int payload_left = payload_size": the low 32 bits.
ToInt(w) == w.lo

(***************************************************************************)
(* AicClient::sendMessage                                                  *)
(***************************************************************************)
NotConnected(fd) == fd < 0

\* A send check that only looks for a failed write.
WriteFailedOnly(wr_res, data_size) == wr_res < 0

\* "wr_res != data_size", an int compared with a size_t.
ShortWrite(wr_res, data_size) == FromInt(wr_res) # UWord(data_size)

\* send() on the socket: -1, or the number of bytes it took.
SendResults(fd, data_size) ==
    IF fd \in fdConn THEN {-1} \cup 0..data_size ELSE {-1}

\* The call, given what its send() returns: the status, errno afterwards
\* and the number of send() calls made.
sendMessage(data_size, w) ==
    IF NotConnected(mSocketFD)
      THEN [res |-> EINVAL, errno |-> errno, writes |-> 0, wr_res |-> 0]
    ELSE LET e == IF w < 0 THEN EPIPE ELSE errno
         IN  IF ShortWrite(w, data_size)
               THEN [res |-> ErrnoOr(e, EIO), errno |-> e, writes |-> 1,
                     wr_res |-> w]
               ELSE [res |-> NO_ERROR, errno |-> e, writes |-> 1,
                     wr_res |-> w]

\* The null byte that ends a string in memory.
NUL == "NUL"

\* A string as it lies in memory: its characters and the null byte.
CString(str) == Append(str, NUL)

\* The data_size bytes at data that send() is handed, when it is called.
Handed(data, data_size, writes) ==
    IF writes = 0 THEN <<>> ELSE SubSeq(CString(data), 1, data_size)

\* The bytes send() took, given its return value.
OnWire(bytes, w) == SubSeq(bytes, 1, IF w < 0 THEN 0 ELSE w)

SendMessage ==
    /\ alive /\ pc = "idle"
    /\ \E n \in 0..MaxMsg :
         \E w \in SendResults(mSocketFD, n) :
           LET r == sendMessage(n, w)
           IN  /\ errno' = r.errno
               /\ h' = [H0("sendMessage") EXCEPT !.done = TRUE,
                           !.res = r.res, !.sends = 1, !.writes = r.writes,
                           !.data_size = n, !.wr_res = r.wr_res,
                           !.smRes = r.res]
    /\ pc' = "done"
    /\ UNCHANGED <<cam, longBits, alive, mSocketFD, fdOpen, fdConn, rx, query,
                   out, blk, recvLocals, res>>

(***************************************************************************)
(* AicClient::receiveMessage                                               *)
(***************************************************************************)
Take(s, n) == SubSeq(s, 1, Min(n, Len(s)))
Drop(s, n) == SubSeq(s, n + 1, Len(s))

\* What the caller's variables may hold before the call.
Uninitialised == [data |-> "stale", data_size |-> UWord(1)]

\* "*data = NULL; *data_size = 0;"
ClearReply(cell) == NoReply

\* read() of up to count bytes (0 < count < 2^31) from the socket: some of
\* the bytes that are there (avail), at most MaxBacklog staying unread;
\* with none there, end of stream or the receive timeout.
ReadResults(fd, count) ==
    IF fd \notin fdConn
      THEN {[n |-> -1, errno |-> ENOTCONN, env |-> TRUE, avail |-> rx]}
      ELSE UNION {{[n |-> k, errno |-> errno, env |-> FALSE,
                    avail |-> rx \o a] :
                      k \in {c \in 1..Min(count, Len(rx \o a)) :
                                Len(rx \o a) - c <= MaxBacklog}} :
                  a \in Arrivals}
           \cup (IF rx # <<>> THEN {}
                 ELSE {[n |-> 0, errno |-> errno, env |-> TRUE, avail |-> rx],
                       [n |-> -1, errno |-> EAGAIN, env |-> TRUE,
                        avail |-> rx]})

\* A prefix check that accepts whatever the read delivered.
PrefixAnyBytes(rd_res) == rd_res > 0

\* "if (rd_res != 8)"
PrefixComplete(rd_res) == rd_res = 8

\* "if (errno)" after strtol
ConversionFailed(e) == e # 0

\* malloc of 2^63 bytes or more, or of 2^31 or more on a 32-bit build,
\* cannot succeed; any other may fail too.
MallocMaySucceed(size) == size.hi = 0 /\ (longBits = 64 \/ size.lo >= 0)

\* Lines 138-179 given the prefix read's outcome r and malloc's luck m:
\* the call returns (next = "ret") or goes on to read the payload.
RecvEntry(cell, r, m) ==
    LET cleared == ClearReply(cell)
        base == [next |-> "ret", res |-> NO_ERROR, branch |-> "",
                 errno |-> errno, rx |-> rx, out |-> cleared,
                 blk |-> NoBlock, size |-> UWord(0), rd |-> 0,
                 taken |-> <<>>, env |-> FALSE, mallocs |-> 0,
                 mfail |-> FALSE]
        n == Max(r.n, 0)
        rd == [base EXCEPT !.rd = r.n, !.taken = Take(r.avail, n),
                           !.rx = Drop(r.avail, n), !.env = r.env]
        p == strtol(Take(r.avail, 8), longBits)
    IN  IF NotConnected(mSocketFD)
          THEN [base EXCEPT !.res = EINVAL, !.branch = "notconn"]
        ELSE IF ~PrefixComplete(r.n)
          THEN [rd EXCEPT !.res = ErrnoOr(r.errno, EIO), !.errno = r.errno,
                          !.branch = "prefix"]
        ELSE IF ConversionFailed(p.err)
          THEN [rd EXCEPT !.res = EIO, !.errno = p.err, !.branch = "convert"]
        ELSE IF ~(m /\ MallocMaySucceed(p.val))
          THEN [rd EXCEPT !.res = ENOMEM, !.errno = ENOMEM, !.mallocs = 1,
                          !.mfail = TRUE, !.branch = "malloc"]
          ELSE [rd EXCEPT !.next = "loop", !.errno = 0, !.mallocs = 1,
                          !.size = p.val,
                          !.out = [cleared EXCEPT !.data = "blk"],
                          !.blk = [state |-> "allocated", size |-> p.val,
                                   bytes |-> <<>>, frees |-> 0]]

\* Where a returning receiveMessage leaves the thread.
AfterReceive == IF h.op = "doQuery" THEN "dq_complete" ELSE "done"

\* receiveMessage up to its return or the entry of its loop, called by
\* the client's user (at "idle") or by doQuery (at "dq_recv").
ReceiveMessageAt(where) ==
    /\ alive
    /\ pc = where
    /\ \E m \in BOOLEAN :
         \E r \in ReadResults(mSocketFD, 8) :
           LET inQuery == pc = "dq_recv"
               hh == IF inQuery THEN h ELSE H0("receiveMessage")
               e  == RecvEntry(IF inQuery THEN out ELSE Uninitialised, r, m)
               ret == e.next = "ret"
           IN  /\ errno' = e.errno
               /\ rx' = e.rx
               /\ out' = e.out
               /\ blk' = e.blk
               /\ payload_size' = e.size
               /\ payload_left' = ToInt(e.size)
               /\ payload_read' = 0
               /\ ptr' = 0
               /\ res' = IF inQuery THEN e.res ELSE res
               /\ pc' = IF ~ret THEN "rm_loop"
                        ELSE IF inQuery THEN "dq_complete" ELSE "done"
               /\ h' = [hh EXCEPT !.recvs = @ + 1, !.prefix_rd = e.rd,
                           !.events = Append(@, "receiveMessage"),
                           !.taken = e.taken, !.envFail = e.env,
                           !.leftover = Len(rx),
                           !.eof = (r.n = 0 /\ r.env),
                           !.mallocs = e.mallocs, !.mallocFail = e.mfail,
                           !.declared = e.size,
                           !.rmDone = ret, !.rmRes = e.res,
                           !.rmBranch = e.branch,
                           !.done = ret /\ ~inQuery,
                           !.res = IF ret /\ ~inQuery THEN e.res ELSE @]
    /\ UNCHANGED <<cam, longBits, alive, mSocketFD, fdOpen, fdConn, query>>

ReceiveMessage == ReceiveMessageAt("idle") \/ ReceiveMessageAt("dq_recv")

\* read(mSocketFD, ptr, payload_left): the int count becomes a size_t; a
\* count above SSIZE_MAX is refused by the kernel, a count of 0 reads
\* nothing.
PayloadReadResults(left) ==
    LET count == FromInt(left)
    IN  IF count.hi # 0 \/ count.lo < 0
          THEN {[n |-> -1, errno |-> EFAULT, env |-> FALSE, avail |-> rx]}
        ELSE IF count.lo = 0
          THEN {[n |-> 0, errno |-> errno, env |-> FALSE, avail |-> rx]}
          ELSE {r \in ReadResults(mSocketFD, count.lo) :
                   r.n > 0 => payload_read + r.n <= MaxPayload}

\* "static_cast<size_t>(payload_read) == payload_size"
PayloadComplete(nread, size) == FromInt(nread) = size

\* The buffer after chunk is stored at offset off (bytes never written
\* read as "?").
Store(bytes, off, chunk) ==
    [i \in 1..Max(Len(bytes), off + Len(chunk)) |->
        IF off < i /\ i <= off + Len(chunk) THEN chunk[i - off]
        ELSE IF i <= Len(bytes) THEN bytes[i] ELSE "?"]

\* "ptr += rd_res"
Advance(p, n) == p + n

\* A short-payload exit that does not free the buffer.
KeepBuffer(b) == b

\* A short-payload exit that frees the buffer and keeps the pointer.
KeepPointer(cell) == cell

\* "free(*data);"
Release(b) == [b EXCEPT !.state = "freed", !.frees = @ + 1]

\* "*data = NULL;"
Forget(cell) == [cell EXCEPT !.data = NULL]

\* "*data_size = payload_size"
Report(cell, size) == [cell EXCEPT !.data_size = size]

\* One turn of the loop of lines 180-189, or its exit through 191-198.
ReceivePayload ==
    /\ pc = "rm_loop"
    /\ \E r \in PayloadReadResults(payload_left) :
         LET nread == payload_read + r.n
             full  == r.n > 0 /\ PayloadComplete(nread, payload_size)
             short == r.n <= 0 /\ ~PayloadComplete(payload_read, payload_size)
             ret   == r.n <= 0 \/ full
             rc    == IF short THEN ErrnoOr(r.errno, EIO) ELSE NO_ERROR
             api   == h.op # "doQuery"
         IN  /\ errno' = r.errno
             /\ IF r.n > 0
                  THEN /\ rx' = Drop(r.avail, r.n)
                       /\ blk' = [blk EXCEPT
                                    !.bytes = Store(@, ptr, Take(r.avail, r.n))]
                       /\ out' = IF full THEN Report(out, payload_size)
                                 ELSE out
                  ELSE /\ rx' = rx
                       /\ blk' = IF short THEN Release(blk) ELSE blk
                       /\ out' = IF short THEN Forget(out) ELSE out
             /\ IF ret
                  THEN /\ payload_size' = UWord(0)
                       /\ payload_left' = 0
                       /\ payload_read' = 0
                       /\ ptr' = 0
                  ELSE /\ payload_size' = payload_size
                       /\ payload_left' = payload_left - r.n
                       /\ payload_read' = nread
                       /\ ptr' = Advance(ptr, r.n)
             /\ res' = IF ret /\ ~api THEN rc ELSE res
             /\ pc' = IF ret THEN AfterReceive ELSE pc
             /\ h' = [h EXCEPT !.reads = @ + 1,
                         !.taken = @ \o Take(r.avail, Max(r.n, 0)),
                         !.envFail = @ \/ r.env,
                         !.eof = @ \/ (r.n = 0 /\ r.env),
                         !.rmDone = ret, !.rmRes = rc,
                         !.rmBranch = IF ~ret THEN @
                                      ELSE IF short THEN "short" ELSE "ok",
                         !.done = ret /\ api,
                         !.res = IF ret /\ api THEN rc ELSE @]
    /\ UNCHANGED <<cam, longBits, alive, mSocketFD, fdOpen, fdConn, query>>

(***************************************************************************)
(* AicClient::doQuery                                                      *)
(***************************************************************************)
\* The queries the camera client builds, as character sequences.
QueryStrings == { <<"s","t","o","p">>, <<"i","n","f","o","s">> }

\* QemuQuery(str): the query as its constructor leaves it, built or failed
\* to build.
QemuQuery(str) ==
    {[mQueryDeliveryStatus |-> NO_ERROR, mQuery |-> str]}
    \cup {[mQueryDeliveryStatus |-> e, mQuery |-> <<>>] : e \in {EINVAL, ENOMEM}}

\* The queries doQuery may be handed.
Queries == UNION {QemuQuery(c) : c \in QueryStrings}

\* A doQuery that does not look at the build status.
NeverInvalid(q) == FALSE

\* "if (query->mQueryDeliveryStatus != NO_ERROR)"
QueryInvalid(q) == q.mQueryDeliveryStatus # NO_ERROR

strlen(str) == Len(str)

\* A request without the null byte.
RequestSizeNoNul(q) == strlen(q.mQuery)

\* "strlen(query->mQuery) + 1"
RequestSize(q) == strlen(q.mQuery) + 1

\* A doQuery that goes on to receive whatever sendMessage returned.
SendAlwaysSucceeded(r) == TRUE

\* "if (res == NO_ERROR)" after sendMessage
SendSucceeded(r) == r = NO_ERROR

\* QemuQuery::completeQuery(status): a failed delivery is returned as it
\* is; a delivered reply is then judged by its "ok"/"ko" marker.
CompleteResults(status) ==
    IF status # NO_ERROR THEN {status} ELSE {NO_ERROR, EINVAL}

\* The status doQuery hands to completeQuery.
CompletionArg(r) == r

\* doQuery(&q) up to the return of sendMessage, called by the camera
\* operation caller ("" for another user of the client).
DoQueryOn(caller, q) ==
    /\ alive /\ pc = "idle"
    /\ \E w \in SendResults(mSocketFD, RequestSize(q)) :
         /\ query' = q
         /\ out' = NoReply
         /\ blk' = NoBlock
         /\ IF QueryInvalid(q)
              THEN /\ h' = [H0("doQuery") EXCEPT !.done = TRUE,
                               !.errno0 = errno, !.rx0 = rx,
                               !.build = q.mQueryDeliveryStatus,
                               !.res = q.mQueryDeliveryStatus,
                               !.branch = "invalid",
                               !.caller = caller, !.doQueries = 1]
                   /\ pc' = "done"
                   /\ UNCHANGED <<errno, res>>
              ELSE LET r == sendMessage(RequestSize(q), w)
                       bytes == Handed(q.mQuery, RequestSize(q), r.writes)
                   IN  /\ errno' = r.errno
                       /\ res' = r.res
                       /\ pc' = IF SendSucceeded(r.res) THEN "dq_recv"
                                ELSE "dq_complete"
                       /\ h' = [H0("doQuery") EXCEPT !.sends = 1,
                                   !.build = q.mQueryDeliveryStatus,
                                   !.writes = r.writes,
                                   !.data_size = RequestSize(q),
                                   !.wr_res = r.wr_res, !.smRes = r.res,
                                   !.handed = bytes,
                                   !.wire = OnWire(bytes, r.wr_res),
                                   !.caller = caller, !.doQueries = 1,
                                   !.events = <<"sendMessage">>]
    /\ UNCHANGED <<cam, longBits, alive, mSocketFD, fdOpen, fdConn, rx,
                   recvLocals>>

DoQuery == \E q \in Queries : DoQueryOn("", q)

DoQueryComplete ==
    /\ pc = "dq_complete"
    /\ \E res1 \in CompleteResults(CompletionArg(res)) :
         /\ h' = [h EXCEPT !.completes = @ + 1,
                     !.events = Append(@, "completeQuery"),
                     !.completeArg = CompletionArg(res),
                     !.done = TRUE, !.res = res1]
         /\ query' = [query EXCEPT !.mQueryDeliveryStatus = CompletionArg(res)]
    /\ pc' = "done"
    /\ UNCHANGED <<cam, longBits, alive, mSocketFD, fdOpen, fdConn, errno, rx,
                   out, blk, recvLocals, res>>

(***************************************************************************)
(* The caller: a call has returned; the caller has looked at the result,   *)
(* its query and reply buffer go out of scope, and it goes on to its next  *)
(* call.                                                                   *)
(***************************************************************************)
\* The replies the service writes: 8 hexadecimal digits and the payload.
WholeFrames == {Hex8(Len(p)) \o p : p \in Payloads}

\* What is still to come of a reply of which the bytes t have been read.
Remainders(t) ==
    {Drop(f, Len(t)) : f \in {g \in WholeFrames :
                                 Len(g) > Len(t) /\ Take(g, Len(t)) = t}}

\* The bytes that may reach the socket after a call has returned, when
\* receiveMessage failed on a connection that is still up before the end of
\* the reply it was reading: the next bytes of that reply.
LateBytes ==
    IF /\ h.recvs = 1 /\ h.rmDone /\ h.rmRes # NO_ERROR
       /\ ~h.eof
       /\ mSocketFD \in fdConn
      THEN {Take(r, k) : r \in Remainders(h.taken), k \in 0..MaxLate}
      ELSE {}

\* The return, the bytes late reaching the socket meanwhile.
ReturnWith(late) ==
    /\ pc = "done"
    /\ pc' = "idle"
    /\ query' = NoQuery
    /\ out' = NoReply
    /\ blk' = NoBlock
    /\ res' = NO_ERROR
    /\ h' = Idle
    /\ rx' = rx \o late
    /\ UNCHANGED <<cam, longBits, alive, mSocketFD, fdOpen, fdConn, errno,
                   recvLocals>>

Return == ReturnWith(<<>>)

\* The return after a receive that failed in the middle of a reply, more of
\* which reaches the socket before the caller's next call.
ReturnLate == \E late \in LateBytes \ {<<>>} : ReturnWith(late)

Next ==
    \/ Construct
    \/ Destroy
    \/ ConnectClient
    \/ DisconnectClient
    \/ SendMessage
    \/ ReceiveMessage
    \/ ReceivePayload
    \/ DoQuery
    \/ DoQueryComplete
    \/ Return

Spec == Init /\ [][Next]_vars

\* The client on a stream whose replies may arrive late.
StreamNext == Next \/ ReturnLate

StreamSpec == Init /\ [][StreamNext]_vars

(***************************************************************************)
(* CameraAicClient: the operations as callers of doQuery                   *)
(***************************************************************************)
mQueryConnect == <<"c","o","n","n","e","c","t">>

mQueryDisconnect == <<"d","i","s","c","o","n","n","e","c","t">>

mQueryInfo == <<"i","n","f","o","s">>

mQueryStart == <<"s","t","a","r","t">>

mQueryStop == <<"s","t","o","p">>

mQueryFrame == <<"f","r","a","m","e">>

\* " dim=%dx%d pix=%d" as snprintf writes it for a caller's arguments.
StartArgs == { <<" ","d","i","m","=","1","x","1"," ","p","i","x","=","0">> }

\* " video=%d preview=%d whiteb=%g,%g,%g expcomp=%g" likewise.
FrameArgs ==
    { <<" ","v","i","d","e","o","=","1"," ","p","r","e","v","i","e","w","=",
        "0"," ","w","h","i","t","e","b","=","1",",","1",",","1"," ","e","x",
        "p","c","o","m","p","=","1">> }

HighLevelOps ==
    {"queryConnect", "queryDisconnect", "queryInfo", "queryStart",
     "queryStop", "queryFrame"}

\* The strings an operation may construct its query from.
QueryText(op) ==
    CASE op = "queryConnect"    -> {mQueryConnect}
      [] op = "queryDisconnect" -> {mQueryDisconnect}
      [] op = "queryInfo"       -> {mQueryInfo}
      [] op = "queryStart"      -> {mQueryStart \o a : a \in StartArgs}
      [] op = "queryStop"       -> {mQueryStop}
      [] op = "queryFrame"      -> {mQueryFrame \o a : a \in FrameArgs}

\* One of the six operations: it constructs its query and calls doQuery on
\* it; what it does with the completed query follows the return of
\* doQuery.
QueryOp ==
    \E op \in HighLevelOps :
      \E str \in QueryText(op) :
        \E q \in QemuQuery(str) : DoQueryOn(op, q)

OpsNext ==
    \/ ConnectClient
    \/ DisconnectClient
    \/ QueryOp
    \/ ReceiveMessageAt("dq_recv")
    \/ ReceivePayload
    \/ DoQueryComplete
    \/ Return

OpsSpec == Init /\ [][OpsNext]_vars

(***************************************************************************)
(* size_t arithmetic, modulo 2^32 or 2^64 as the build has it, computed by *)
(* 16-bit digits.                                                          *)
(***************************************************************************)
Lo16(p) == p % 65536
Hi16(p) == (p \div 65536) % 65536
Pattern(h16, l16) ==
    (IF h16 >= 32768 THEN h16 - 65536 ELSE h16) * 65536 + l16

\* a - b - bin on 32 bits: the bit pattern p and the borrow c.
Sub32(a, b, bin) ==
    LET l  == Lo16(a) - Lo16(b) - bin
        bl == IF l < 0 THEN 1 ELSE 0
        u  == Hi16(a) - Hi16(b) - bl
        bu == IF u < 0 THEN 1 ELSE 0
    IN  [p |-> Pattern(u + 65536 * bu, l + 65536 * bl), c |-> bu]

\* a + b + cin on 32 bits: the bit pattern p and the carry c.
Add32(a, b, cin) ==
    LET l  == Lo16(a) + Lo16(b) + cin
        cl == IF l >= 65536 THEN 1 ELSE 0
        u  == Hi16(a) + Hi16(b) + cl
        cu == IF u >= 65536 THEN 1 ELSE 0
    IN  [p |-> Pattern(u - 65536 * cu, l - 65536 * cl), c |-> cu]

\* a < b for two 32-bit patterns read as unsigned numbers.
Below32(a, b) ==
    \/ Hi16(a) < Hi16(b)
    \/ Hi16(a) = Hi16(b) /\ Lo16(a) < Lo16(b)

\* x - y, x + y and x >= y of two size_t values.
SizeSub(x, y) ==
    LET lo == Sub32(x.lo, y.lo, 0)
        hi == Sub32(x.hi, y.hi, lo.c)
    IN  [hi |-> IF longBits = 64 THEN hi.p ELSE 0, lo |-> lo.p]

SizeAdd(x, y) ==
    LET lo == Add32(x.lo, y.lo, 0)
        hi == Add32(x.hi, y.hi, lo.c)
    IN  [hi |-> IF longBits = 64 THEN hi.p ELSE 0, lo |-> lo.p]

SizeGeq(x, y) ==
    ~(Below32(x.hi, y.hi) \/ (x.hi = y.hi /\ Below32(x.lo, y.lo)))

SIZE_MAX == Word(-1, longBits)

\* A size_t below 2^31, whose low word is the number itself.
IsSmall(w) == w.hi = 0 /\ w.lo >= 0

(***************************************************************************)
(* CameraAicClient.  A QemuQuery that doQuery has completed is taken as    *)
(* QemuQuery presents it: its completion status, whether the service       *)
(* accepted the request, and the reply data with its size.                 *)
(***************************************************************************)
\* Longest reply data of a completed query.
MaxReply == 3
\* Largest frame size a caller asks for, short of the two extreme ones.
MaxSeg == 2

ReplyBytes == {"a", "b"}

\* doQuery's return value, getCompletionStatus(), isQuerySucceeded(),
\* mReplyData and mReplyDataSize of a query after doQuery.
CompletedQueries ==
    {[ret |-> r, status |-> NO_ERROR, ok |-> k, mReplyData |-> d,
      mReplyDataSize |-> UWord(Len(d))] :
        r \in CompleteResults(NO_ERROR), k \in BOOLEAN,
        d \in SeqsUpTo(ReplyBytes, MaxReply)}
    \cup {[ret |-> e, status |-> e, ok |-> FALSE, mReplyData |-> <<>>,
           mReplyDataSize |-> UWord(0)] : e \in {EIO, EINVAL}}

\* The frame sizes a caller passes: small ones, 2^31 and the largest size_t.
SegSizes ==
    {UWord(n) : n \in 0..MaxSeg} \cup {UWord(-2147483647 - 1), SIZE_MAX}

\* A caller's buffer pointer: null or not.
Pointers == {NULL, "buf"}

\* The part of a caller's buffer of size bytes that is followed here: all
\* of it when it is small, its first MaxSeg + 1 bytes otherwise.
Tracked(size) ==
    IF IsSmall(size) /\ size.lo <= MaxSeg THEN size.lo ELSE MaxSeg + 1

\* A caller's buffer before the call.
Fresh(buf, size) == IF buf = NULL THEN <<>> ELSE [i \in 1..Tracked(size) |-> "?"]

\* The index a size_t offset stands for in the reply data (one past the
\* data and its neighbourhood when it is beyond them).
IndexOf(off) ==
    IF IsSmall(off) /\ off.lo <= MaxReply THEN off.lo ELSE MaxReply + 1

\* memcpy(dst, src + off, n): the bytes of dst afterwards; a byte read from
\* beyond the end of src is "oob".
Memcpy(dst, src, off, n) ==
    [i \in 1..Len(dst) |->
        IF i > Tracked(n) THEN dst[i]
        ELSE IF IndexOf(off) + i <= Len(src) THEN src[IndexOf(off) + i]
        ELSE "oob"]

\* The indices of src that memcpy(dst, src + off, n) reads (those followed).
ReadRange(off, n) == {IndexOf(off) + i - 1 : i \in 1..Tracked(n)}

\* A frame check that compares as if the sizes were signed.
FitsSigned(remaining, size) ==
    \/ remaining.hi > size.hi
    \/ remaining.hi = size.hi /\ remaining.lo >= size.lo

\* "vframe != NULL && vframe_size != 0"
Requested(buf, size) == buf # NULL /\ size # UWord(0)

\* A remainder that forgets the part already copied.
RemainingOfAll(size, off) == size

\* "query.mReplyDataSize - cur_offset"
Remaining(size, off) == SizeSub(size, off)

\* "(query.mReplyDataSize - cur_offset) >= vframe_size"
Fits(remaining, size) == SizeGeq(remaining, size)

\* An offset that stays where it is.
StayAtOffset(off, n) == off

\* "cur_offset += vframe_size"
AdvanceOffset(off, n) == SizeAdd(off, n)

\* queryFrame up to "Copy requested frames": the query is built, run by
\* doQuery, and a failed one returned.
QueryFrame ==
    /\ cam.pc = "idle"
    /\ \E vframe \in Pointers, pframe \in Pointers,
          vframe_size \in SegSizes, pframe_size \in SegSizes,
          q \in CompletedQueries :
         LET res0 == q.status
         IN  cam' = [op |-> "queryFrame",
                     pc |-> IF res0 # NO_ERROR THEN "done" ELSE "qf_video",
                     vframe |-> vframe, pframe |-> pframe,
                     vframe_size |-> vframe_size,
                     pframe_size |-> pframe_size,
                     vbuf |-> Fresh(vframe, vframe_size),
                     pbuf |-> Fresh(pframe, pframe_size),
                     status |-> q.status,
                     mReplyData |-> q.mReplyData,
                     mReplyDataSize |-> q.mReplyDataSize,
                     cur_offset |-> UWord(0),
                     ret |-> res0,
                     doQueries |-> 1,
                     \* each "size - offset" evaluated, the indices of the
                     \* reply data read, the segments copied
                     evals |-> <<>>, reads |-> {}, copied |-> {}]
    /\ UNCHANGED transport

\* One segment of queryFrame ("video" or "preview"): its check, and its
\* copy or the return of EINVAL.
Segment(name, buf, size, next) ==
    IF ~Requested(buf, size)
      THEN [cam EXCEPT !.pc = next]
    ELSE LET e == [size |-> cam.mReplyDataSize, off |-> cam.cur_offset]
             remaining == Remaining(cam.mReplyDataSize, cam.cur_offset)
             dst == IF name = "video" THEN cam.vbuf ELSE cam.pbuf
             new == Memcpy(dst, cam.mReplyData, cam.cur_offset, size)
         IN  IF Fits(remaining, size)
               THEN [cam EXCEPT !.vbuf = IF name = "video" THEN new ELSE @,
                                !.pbuf = IF name = "preview" THEN new ELSE @,
                                !.reads = @ \cup ReadRange(cam.cur_offset, size),
                                !.copied = @ \cup {name},
                                !.cur_offset = AdvanceOffset(@, size),
                                !.evals = Append(@, e),
                                !.pc = next]
               ELSE [cam EXCEPT !.evals = Append(@, e), !.ret = EINVAL,
                                !.pc = "done"]

FrameVideo ==
    /\ cam.pc = "qf_video"
    /\ cam' = Segment("video", cam.vframe, cam.vframe_size, "qf_preview")
    /\ UNCHANGED transport

\* The preview segment, and "return NO_ERROR" after it.
FramePreview ==
    /\ cam.pc = "qf_preview"
    /\ LET c == Segment("preview", cam.pframe, cam.pframe_size, "qf_return")
       IN  cam' = IF c.pc = "qf_return"
                    THEN [c EXCEPT !.ret = NO_ERROR, !.pc = "done"]
                    ELSE c
    /\ UNCHANGED transport

\* The caller's char* before queryInfo, and a string malloc gave it.
Unwritten == "unwritten"

\* A reply that is never taken for empty.
NeverEmpty(size) == FALSE

\* "if (query.mReplyDataSize == 0)"
EmptyReply(size) == size = UWord(0)

\* "doQuery(&query) || !query.isQuerySucceeded()"
InfoQueryFailed(q) == q.ret # NO_ERROR \/ ~q.ok

\* snprintf(*p_info_string, size + 1, "%s", data): the string written.
InfoString(data, size) == Take(data, size.lo)

\* queryInfo up to "Make sure there is info returned": the null pointer is
\* logged, the query is built and run by doQuery, and a failed one returned.
QueryInfo ==
    /\ cam.pc = "idle"
    /\ \E p_info_string \in Pointers, q \in CompletedQueries :
         cam' = [op |-> "queryInfo",
                 pc |-> IF InfoQueryFailed(q) THEN "done" ELSE "qi_copy",
                 p_info_string |-> p_info_string,
                 info |-> Unwritten,
                 query |-> q,
                 ret |-> q.status,
                 doQueries |-> 1,
                 \* stores through p_info_string, and those of them made
                 \* through a null pointer
                 writes |-> 0, nullWrites |-> 0]
    /\ UNCHANGED transport

\* The rest of queryInfo.  The store through a null p_info_string ends the
\* process.
InfoCopy ==
    /\ cam.pc = "qi_copy"
    /\ IF EmptyReply(cam.query.mReplyDataSize)
         THEN cam' = [cam EXCEPT !.ret = EINVAL, !.pc = "done"]
         ELSE \E m \in BOOLEAN :
                IF cam.p_info_string = NULL
                  THEN cam' = [cam EXCEPT !.writes = 1, !.nullWrites = 1,
                                          !.pc = "crashed"]
                ELSE IF ~m
                  THEN cam' = [cam EXCEPT !.writes = 1, !.info = NULL,
                                          !.ret = ENOMEM, !.pc = "done"]
                  ELSE cam' = [cam EXCEPT
                                 !.writes = 1,
                                 !.info = InfoString(cam.query.mReplyData,
                                                     cam.query.mReplyDataSize),
                                 !.ret = NO_ERROR, !.pc = "done"]
    /\ UNCHANGED transport

CamNext == QueryFrame \/ FrameVideo \/ FramePreview \/ QueryInfo \/ InfoCopy

CamSpec == Init /\ [][CamNext]_vars

(***************************************************************************)
(* Properties.  h describes the call in progress or the call that has just *)
(* returned: h.pre is the client as the call found it.                     *)
(***************************************************************************)

\* C1: connectClient on a client that holds a socket (mSocketFD >= 0)
\* returns EINVAL, creates no socket, and leaves mSocketFD and the socket
\* as they were, the socket still open.
ConnectWhileHoldingSocket ==
    (h.op = "connectClient" /\ h.pre.mSocketFD >= 0)
        => /\ h.done
           /\ h.res = EINVAL
           /\ h.sockets = 0
           /\ mSocketFD = h.pre.mSocketFD
           /\ fdOpen = h.pre.fdOpen
           /\ fdConn = h.pre.fdConn
           /\ mSocketFD \in fdOpen

\* A second connectClient on a connected client has returned.
ConnectedTwice ==
    /\ h.op = "connectClient" /\ h.done
    /\ h.pre.mSocketFD \in h.pre.fdConn
    /\ h.res = EINVAL

\* C2: connectClient reports already-connected only when a connection is
\* live (a connect() succeeded on the held socket and it was not closed
\* since); a connectClient that failed leaves the client disconnected, so
\* that the next one tries anew.
AlreadyConnectedOnlyWhenLive ==
    (h.op = "connectClient" /\ h.done /\ h.sockets = 0 /\ h.res = EINVAL)
        => h.pre.mSocketFD \in h.pre.fdConn

\* C3: disconnectClient leaves the client disconnected; on a disconnected
\* client it closes nothing and changes nothing; on a client holding a
\* socket it closes that socket, once.
DisconnectIdempotent ==
    (h.op = "disconnectClient")
        => /\ h.done
           /\ mSocketFD = -1
           /\ ~h.badClose
           /\ errno = h.errno0
           /\ h.pre.mSocketFD < 0
                => /\ h.closes = 0
                   /\ Snapshot = h.pre
                   /\ rx = h.rx0
           /\ h.pre.mSocketFD >= 0
                => /\ h.closes = 1
                   /\ fdOpen = h.pre.fdOpen \ {h.pre.mSocketFD}
                   /\ fdConn = h.pre.fdConn \ {h.pre.mSocketFD}

\* disconnectClient has returned on a client that was disconnected already.
DisconnectedTwice ==
    /\ h.op = "disconnectClient" /\ h.done
    /\ h.pre.mSocketFD = -1
    /\ h.closes = 0

\* The lengths the service can write in 8 hexadecimal characters, those of
\* the payloads here and one of 2^31 bytes.
WellFormedLengths ==
    {[prefix |-> Hex8(n), size |-> UWord(n)] : n \in 0..MaxPayload}
    \cup {[prefix |-> <<"8","0","0","0","0","0","0","0">>,
           size |-> UWord(-2147483647 - 1)]}

\* receiveMessage has returned after a whole prefix f.prefix, with no
\* failure of the stream and none of malloc.
Received(f) ==
    /\ h.recvs = 1 /\ h.rmDone
    /\ h.prefix_rd = 8
    /\ Take(h.taken, 8) = f.prefix
    /\ ~h.envFail /\ ~h.mallocFail

\* The reply is the payload of f.size bytes that followed the prefix.
RoundTrip(f) ==
    /\ h.rmRes = NO_ERROR
    /\ out = [data |-> "blk", data_size |-> f.size]
    /\ blk.state = "allocated"
    /\ blk.bytes = Drop(h.taken, 8)
    /\ UWord(Len(blk.bytes)) = f.size

\* C4: for every payload size S that 8 hexadecimal characters can give,
\* S = 0 included, and however the stream splits the payload into reads,
\* receiveMessage returns NO_ERROR with *data_size = S and the S payload
\* bytes in stream order.
FramingRoundTrip == \A f \in WellFormedLengths : Received(f) => RoundTrip(f)

\* The same for the sizes below 2^31 only.
FramingRoundTripBelow2G ==
    \A f \in WellFormedLengths : (f.size.lo >= 0 /\ Received(f)) => RoundTrip(f)

\* A payload of two bytes came in two reads.
RoundTripInParts ==
    Received([prefix |-> Hex8(2)]) /\ h.reads = 2 /\ h.rmRes = NO_ERROR

\* A payload of no byte came with no byte after its prefix.
EmptyRoundTrip ==
    Received([prefix |-> Hex8(0)]) /\ h.taken = Hex8(0) /\ h.rmRes = NO_ERROR

\* C5: when the read of the prefix gives fewer than 8 bytes (none, or an
\* error, included), receiveMessage returns a non-zero status, allocates
\* nothing, and leaves *data NULL and *data_size 0.
ShortPrefixFails ==
    (h.recvs = 1 /\ h.pre.mSocketFD >= 0 /\ h.prefix_rd # 8)
        => /\ h.rmDone
           /\ h.rmRes # NO_ERROR
           /\ h.mallocs = 0
           /\ out = NoReply
           /\ blk = NoBlock

\* The stream gave a part of the prefix only.
PartOfPrefix ==
    /\ h.recvs = 1 /\ h.rmDone
    /\ h.prefix_rd \in 1..7
    /\ h.rmRes = EIO

\* C6: when the declared length L > 0 and the reads end with fewer than L
\* payload bytes, receiveMessage returns a non-zero status, the buffer it
\* allocated has been freed exactly once, *data is NULL and *data_size 0.
ShortPayloadFreesBuffer ==
    (/\ h.recvs = 1 /\ h.rmDone
     /\ h.mallocs = 1 /\ ~h.mallocFail
     /\ h.declared # UWord(0)
     /\ UWord(Len(h.taken) - 8) # h.declared)
        => /\ h.rmRes # NO_ERROR
           /\ blk.state = "freed"
           /\ blk.frees = 1
           /\ out = NoReply

\* The stream ended after one of two declared payload bytes.
PayloadCutShort ==
    /\ h.recvs = 1 /\ h.rmDone
    /\ h.declared = UWord(2)
    /\ Len(h.taken) = 9
    /\ h.reads = 2
    /\ blk.frees = 1

NotHex(p) == \E i \in 1..Len(p) : ~IsHexDigit(p[i])

\* C7: when the 8 prefix bytes are not a hexadecimal number,
\* receiveMessage returns an error and reports no payload: it never takes
\* the prefix for a length and never returns NO_ERROR.
UnparsablePrefixRejected ==
    (h.recvs = 1 /\ h.rmDone /\ h.prefix_rd = 8 /\ NotHex(Take(h.taken, 8)))
        => /\ h.rmRes # NO_ERROR
           /\ out = NoReply

\* C8: sendMessage on a held socket issues exactly one write, and none
\* without a socket; a write of fewer than data_size bytes, or a failed
\* one, gives a non-zero status and no further write; NO_ERROR means the
\* one write took exactly data_size bytes.
OneWritePerSend ==
    (h.sends = 1)
        => /\ h.writes = (IF h.pre.mSocketFD >= 0 THEN 1 ELSE 0)
           /\ (h.writes = 1 /\ h.wr_res # h.data_size) => h.smRes # NO_ERROR
           /\ h.smRes = NO_ERROR => (h.writes = 1 /\ h.wr_res = h.data_size)

\* The one write took a part of the message.
WroteShort ==
    /\ h.op = "sendMessage" /\ h.done
    /\ h.writes = 1
    /\ h.wr_res >= 0 /\ h.wr_res < h.data_size
    /\ h.res # NO_ERROR

\* C9: doQuery on a query that failed to build returns the build status,
\* sends nothing, receives nothing and leaves the query's reply as it was.
InvalidQueryNotSent ==
    (h.op = "doQuery" /\ h.build # NO_ERROR)
        => /\ h.done
           /\ h.res = h.build
           /\ h.res # NO_ERROR
           /\ h.sends = 0 /\ h.writes = 0 /\ h.recvs = 0
           /\ h.completes = 0
           /\ out = NoReply /\ blk = NoBlock
           /\ Snapshot = h.pre
           /\ errno = h.errno0 /\ rx = h.rx0

\* doQuery has returned an invalid query's status on a connected client.
InvalidQueryWhileConnected ==
    /\ h.op = "doQuery" /\ h.done
    /\ h.build = EINVAL
    /\ h.res = EINVAL
    /\ mSocketFD \in fdConn

TransportFailed ==
    h.op = "doQuery" /\ h.sends = 1
    /\ \/ h.smRes # NO_ERROR
       \/ h.recvs = 1 /\ h.rmDone /\ h.rmRes # NO_ERROR

\* C10: when sendMessage or receiveMessage fails in doQuery, completeQuery
\* is called with that step's status, and the query's reply buffer is NULL
\* and its reply size 0 then.
FailureCompletesQuery ==
    TransportFailed
        => /\ pc \in {"dq_complete", "done"}
           /\ out = NoReply
           /\ blk.state # "allocated"
           /\ pc = "done"
                => /\ h.completes = 1
                   /\ h.completeArg =
                        (IF h.smRes # NO_ERROR THEN h.smRes ELSE h.rmRes)
                   /\ h.completeArg # NO_ERROR

\* A query was completed after its reply was cut short in the payload.
CompletedAfterShortReply ==
    /\ h.op = "doQuery" /\ h.completes = 1
    /\ h.recvs = 1 /\ h.mallocs = 1 /\ h.rmRes # NO_ERROR
    /\ blk.frees = 1
    /\ h.completeArg = h.rmRes

\* doQuery has been called on a query that was built.
InValidQuery == h.op = "doQuery" /\ h.build = NO_ERROR

\* C14: in every doQuery on a built query sendMessage is invoked exactly
\* once, receiveMessage at most once and only after sendMessage returned
\* NO_ERROR, and completeQuery exactly once, after the transport steps have
\* returned, whether they failed or not; each of the six camera operations
\* calls doQuery once, on the query it has just constructed.
QueryStepsInOrder ==
    /\ InValidQuery
         => /\ h.sends = 1
            /\ h.recvs <= 1
            /\ h.recvs = 1 => h.smRes = NO_ERROR
            /\ h.completes <= 1
            /\ h.completes = 1 => (h.done /\ (h.recvs = 1 => h.rmDone))
            /\ h.done
                 => /\ h.completes = 1
                    /\ h.recvs = (IF h.smRes = NO_ERROR THEN 1 ELSE 0)
                    /\ h.events =
                         (IF h.smRes = NO_ERROR
                            THEN <<"sendMessage", "receiveMessage",
                                   "completeQuery">>
                            ELSE <<"sendMessage", "completeQuery">>)
                    /\ h.completeArg =
                         (IF h.smRes = NO_ERROR THEN h.rmRes ELSE h.smRes)
    /\ h.op = "doQuery"
         => /\ h.caller \in HighLevelOps
            /\ h.doQueries = 1
            /\ \/ query.mQuery \in QueryText(h.caller)
               \/ h.build # NO_ERROR /\ query.mQuery = <<>>

\* queryFrame's query was sent, its reply was cut short, and the query was
\* completed with the failure.
FrameQueryFailedInReceive ==
    /\ InValidQuery /\ h.done
    /\ h.caller = "queryFrame"
    /\ h.events = <<"sendMessage", "receiveMessage", "completeQuery">>
    /\ h.rmRes # NO_ERROR
    /\ h.completeArg = h.rmRes

\* C15: the request doQuery hands to send() for a built query is the
\* characters of the command followed by one null byte, strlen(command) + 1
\* bytes, in one send() call; what reaches the wire when the send succeeds
\* is those bytes.
RequestIsCommandAndNul ==
    InValidQuery
        => /\ h.writes <= 1
           /\ h.pre.mSocketFD >= 0 => h.writes = 1
           /\ h.writes = 1
                => /\ h.handed = query.mQuery \o <<NUL>>
                   /\ Len(h.handed) = Len(query.mQuery) + 1
                   /\ \A i \in 1..Len(query.mQuery) : h.handed[i] # NUL
                   /\ h.smRes = NO_ERROR => h.wire = h.handed

\* queryStart's request went out whole.
StartRequestSent ==
    /\ InValidQuery
    /\ h.caller = "queryStart"
    /\ h.writes = 1 /\ h.smRes = NO_ERROR
    /\ h.wire = mQueryStart \o <<" ","d","i","m","=","1","x","1"," ","p","i",
                                 "x","=","0">> \o <<NUL>>

\* C18: whatever length the 8 digits declare, once it has passed the
\* conversion and the allocation, the int counters of the payload loop are
\* not negative, and the count the next read() is given is the declared
\* length less the bytes already read.
PayloadCountersInRange ==
    pc = "rm_loop"
        => /\ payload_left >= 0
           /\ payload_read >= 0
           /\ FromInt(payload_left) = SizeSub(payload_size, FromInt(payload_read))

\* The bytes receiveMessage read after those that were waiting are the
\* beginning of a reply of the service.
OwnReplyFollowed ==
    \E f \in WholeFrames :
       /\ Len(f) >= Len(h.taken) - h.leftover
       /\ Take(f, Len(h.taken) - h.leftover) = Drop(h.taken, h.leftover)

\* C19: a reply that receiveMessage hands to a query was read from a
\* stream that held no byte of an earlier reply when the receive began,
\* also after an earlier receive on the connection has failed: with the
\* service answering each request by one whole frame, the reply is that
\* frame's.
RepliesAreOwnFrames ==
    (/\ h.op = "doQuery" /\ h.recvs = 1 /\ h.rmDone /\ h.rmRes = NO_ERROR
     /\ OwnReplyFollowed)
        => h.leftover = 0

\* C20: a live client has one descriptor open, mSocketFD, exactly when
\* mSocketFD >= 0, and none otherwise; a destroyed client has none open; no
\* close() is of a descriptor that is not open; sendMessage, receiveMessage
\* and doQuery leave mSocketFD and the descriptor as they found them.
SocketOwnership ==
    /\ Cardinality(fdOpen) <= 1
    /\ alive => fdOpen = (IF mSocketFD >= 0 THEN {mSocketFD} ELSE {})
    /\ ~alive => fdOpen = {}
    /\ fdConn \subseteq fdOpen
    /\ ~h.badClose
    /\ h.closes <= 1
    /\ h.op \in {"sendMessage", "receiveMessage", "doQuery"}
         => /\ mSocketFD = h.pre.mSocketFD
            /\ fdOpen = h.pre.fdOpen
            /\ h.closes = 0 /\ h.sockets = 0

\* A client was destroyed while it held a connected socket.
DestroyedWhileConnected ==
    /\ ~alive
    /\ h.op = "~AicClient"
    /\ h.pre.mSocketFD >= 0
    /\ h.pre.mSocketFD \in h.pre.fdConn
    /\ h.closes = 1
    /\ fdOpen = {}

(***************************************************************************)
(* Properties of CameraAicClient (CamSpec).                                *)
(***************************************************************************)
\* queryFrame is past its query, which succeeded.
InFrameCopy == cam.op = "queryFrame" /\ cam.status = NO_ERROR

\* Number of bytes of reply data.
ReplyLen == Len(cam.mReplyData)

\* A size_t that is more than the small number n.
Larger(size, n) == ~IsSmall(size) \/ size.lo > n

VideoRequested == Requested(cam.vframe, cam.vframe_size)
PreviewRequested == Requested(cam.pframe, cam.pframe_size)

\* The video frame is asked for and the reply is shorter than it.
VideoShort == VideoRequested /\ Larger(cam.vframe_size, ReplyLen)

\* Where the preview frame starts in the reply, the video frame being there.
PreviewStart == IF VideoRequested THEN cam.vframe_size.lo ELSE 0

\* The preview frame is asked for and the reply, after the video frame, is
\* shorter than it.
PreviewShort ==
    /\ ~VideoShort
    /\ PreviewRequested
    /\ Larger(cam.pframe_size, ReplyLen - PreviewStart)

\* C11: after a successful query, a requested segment that is longer than
\* the reply bytes left at the offset makes queryFrame return EINVAL with
\* that segment's buffer as it was; a reply shorter than the video frame
\* leaves both buffers as they were.
ShortReplyLeavesBuffers ==
    InFrameCopy
        => /\ VideoShort
                => /\ cam.vbuf = Fresh(cam.vframe, cam.vframe_size)
                   /\ cam.pbuf = Fresh(cam.pframe, cam.pframe_size)
                   /\ cam.copied = {}
                   /\ cam.pc # "qf_preview"
                   /\ cam.pc = "done" => cam.ret = EINVAL
           /\ PreviewShort
                => /\ cam.pbuf = Fresh(cam.pframe, cam.pframe_size)
                   /\ "preview" \notin cam.copied
                   /\ cam.pc = "done" => cam.ret = EINVAL

\* The video frame was copied, the preview frame did not fit.
PreviewDidNotFit ==
    /\ InFrameCopy /\ cam.pc = "done"
    /\ cam.copied = {"video"}
    /\ PreviewShort
    /\ cam.ret = EINVAL

\* C12: after a successful query whose reply has at least vframe_size +
\* pframe_size bytes, both asked for, queryFrame returns NO_ERROR with the
\* video buffer holding reply bytes [0, vframe_size) and the preview buffer
\* reply bytes [vframe_size, vframe_size + pframe_size), no byte read for
\* both; the preview asked for alone gets reply bytes [0, pframe_size).
FramesCopiedInOrder ==
    (InFrameCopy /\ cam.pc = "done")
        => LET v == cam.vframe_size.lo
               p == cam.pframe_size.lo
           IN  /\ (/\ VideoRequested /\ PreviewRequested
                   /\ ~Larger(cam.vframe_size, ReplyLen)
                   /\ ~Larger(cam.pframe_size, ReplyLen - v))
                     => /\ cam.ret = NO_ERROR
                        /\ cam.vbuf = SubSeq(cam.mReplyData, 1, v)
                        /\ cam.pbuf = SubSeq(cam.mReplyData, v + 1, v + p)
                        /\ cam.reads = 0..(v + p - 1)
                        /\ cam.copied = {"video", "preview"}
               /\ (/\ ~VideoRequested /\ PreviewRequested
                   /\ ~Larger(cam.pframe_size, ReplyLen))
                     => /\ cam.ret = NO_ERROR
                        /\ cam.pbuf = SubSeq(cam.mReplyData, 1, p)
                        /\ cam.vbuf = Fresh(cam.vframe, cam.vframe_size)
                        /\ cam.copied = {"preview"}

\* Both frames were copied out of a reply of exactly their two lengths,
\* whose bytes differ.
BothFramesCopied ==
    /\ InFrameCopy /\ cam.pc = "done"
    /\ cam.copied = {"video", "preview"}
    /\ ReplyLen = cam.vframe_size.lo + cam.pframe_size.lo
    /\ cam.vbuf # cam.pbuf
    /\ cam.ret = NO_ERROR

\* C13: in queryFrame the offset is never more than the reply size where
\* "reply size - offset" is evaluated, whatever the sizes asked for, and
\* every byte copied is read from an index below the reply size.
OffsetWithinReply ==
    InFrameCopy
        => /\ \A i \in 1..Len(cam.evals) :
                 SizeGeq(cam.evals[i].size, cam.evals[i].off)
           /\ SizeGeq(cam.mReplyDataSize, cam.cur_offset)
           /\ \A r \in cam.reads : r < ReplyLen
           /\ \A i \in 1..Len(cam.vbuf) : cam.vbuf[i] # "oob"
           /\ \A i \in 1..Len(cam.pbuf) : cam.pbuf[i] # "oob"

\* The video frame took the whole reply, and the largest size_t was asked
\* for the preview frame.
OffsetAtEndOfReply ==
    /\ InFrameCopy /\ cam.pc = "done"
    /\ Len(cam.evals) = 2
    /\ cam.cur_offset = cam.mReplyDataSize
    /\ ReplyLen > 0
    /\ cam.pframe_size = SIZE_MAX

\* C16: queryInfo called with a null p_info_string never stores through
\* the pointer, however the query ends.
NullInfoPointerRejected ==
    (cam.op = "queryInfo" /\ cam.p_info_string = NULL)
        => /\ cam.nullWrites = 0
           /\ cam.pc # "crashed"

\* C17: queryInfo whose query succeeded with empty reply data returns
\* EINVAL and leaves *p_info_string alone; *p_info_string is assigned only
\* where queryInfo returns NO_ERROR, or ENOMEM after a failed allocation.
EmptyInfoRejected ==
    (cam.op = "queryInfo" /\ cam.p_info_string # NULL)
        => /\ (/\ cam.pc = "done"
               /\ cam.query.ret = NO_ERROR /\ cam.query.ok
               /\ cam.query.mReplyData = <<>>)
                 => /\ cam.ret = EINVAL
                    /\ cam.info = Unwritten
                    /\ cam.writes = 0
           /\ cam.info # Unwritten
                 => /\ cam.pc = "done"
                    /\ cam.writes = 1
                    /\ \/ cam.ret = NO_ERROR /\ cam.info # NULL
                       \/ cam.ret = ENOMEM /\ cam.info = NULL

\* queryInfo has returned on a successful query with no reply data.
EmptyInfoReply ==
    /\ cam.op = "queryInfo" /\ cam.pc = "done"
    /\ cam.p_info_string # NULL
    /\ cam.query.ret = NO_ERROR /\ cam.query.ok
    /\ cam.query.mReplyData = <<>>
    /\ cam.ret = EINVAL

====
